---- MODULE Spec2Model ----
(***************************************************************************)
(* Model of swot-docs: scripts/generate-docs.js (the MDX generator: store  *)
(* pre-flight, listing, per-record emission, stale-file cleanup) and the   *)
(* Basic-Auth proxy of docusaurus.config.js.                               *)
(*                                                                         *)
(* File names and header values are sequences of one-character strings, so *)
(* that endsWith / startsWith / the regular expression / split act on text.*)
(***************************************************************************)
EXTENDS Integers, Sequences, FiniteSets, TLC

\* ----------------------------------------------------------------- bounds
\* Rows of the record store, over both tables.
MaxRows == 2
\* Files present in the output directories before the first run.
MaxPre == 2
\* Runs of the script on the same store and directory tree.
MaxRuns == 2

\* ------------------------------------------------------------ text helpers
Digits == <<"0", "1", "2", "3", "4", "5", "6", "7", "8", "9">>

IsDigit(c) == \E i \in 1..10 : Digits[i] = c

DigitVal(c) == (CHOOSE i \in 1..10 : Digits[i] = c) - 1

\* String(n) for a non-negative integer: decimal, no leading zeros.
RECURSIVE NumToStr(_)
NumToStr(n) ==
    IF n < 10 THEN <<Digits[n + 1]>>
    ELSE NumToStr(n \div 10) \o <<Digits[(n % 10) + 1]>>

\* s.startsWith(p)
StartsWith(s, p) ==
    /\ Len(s) >= Len(p)
    /\ SubSeq(s, 1, Len(p)) = p

\* s.endsWith(p)
EndsWith(s, p) ==
    /\ Len(s) >= Len(p)
    /\ SubSeq(s, Len(s) - Len(p) + 1, Len(s)) = p

MdxExt == <<".", "m", "d", "x">>

\* Length of the longest run of digits that ends s.
RECURSIVE DigitSuffixLen(_)
DigitSuffixLen(s) ==
    IF s = <<>> \/ ~IsDigit(s[Len(s)]) THEN 0
    ELSE 1 + DigitSuffixLen(SubSeq(s, 1, Len(s) - 1))

\* file.match(/-(\d+)\.mdx$/): the captured digits, or <<>> for no match.
\* The digits are anchored to the extension, so the only candidate is the
\* whole digit run before ".mdx", and it must follow a "-".
IdMatch(file) ==
    IF ~EndsWith(file, MdxExt) THEN <<>>
    ELSE LET stem == SubSeq(file, 1, Len(file) - Len(MdxExt))
             k    == DigitSuffixLen(stem)
         IN IF k >= 1 /\ Len(stem) > k /\ stem[Len(stem) - k] = "-"
            THEN SubSeq(stem, Len(stem) - k + 1, Len(stem))
            ELSE <<>>

\* parseInt(digits) for a non-empty digit string.
RECURSIVE ParseInt(_)
ParseInt(ds) ==
    IF Len(ds) = 1 THEN DigitVal(ds[1])
    ELSE 10 * ParseInt(SubSeq(ds, 1, Len(ds) - 1)) + DigitVal(ds[Len(ds)])

\* ---------------------------------------------------------- record store
\* The two record kinds; also the names of the output subdirectories.
Kinds == {"swot", "comparisons"}

\* Identifiers of stored records (primary keys).
Ids == {1, 2}

\* created_at values, as ticks; two ticks make a day.
Timestamps == {1, 2}

\* SQL NULL (a JS null in the row object).
NullValue == "<NULL>"

\* The structured text columns of swot_analyses.
FieldNames ==
    {"strengths_json", "weaknesses_json", "opportunities_json", "threats_json",
     "strategic_so_json", "strategic_wo_json", "strategic_st_json",
     "strategic_wt_json"}

\* The four columns whose parsed value the template calls .length/.map on.
ListedFields ==
    {"strengths_json", "weaknesses_json", "opportunities_json", "threats_json"}

\* Column values: NULL, the empty string, an empty list, a one-item list,
\* a truncated (unparseable) text, and a JSON object (parseable, not a list).
JsonTexts == {NullValue, "", "[]", "[{A}]", "{", "{}"}

\* JSON.parse(text): ok = FALSE stands for the SyntaxError it throws.
JSONParse(text) ==
    CASE text = "[]"    -> [ok |-> TRUE,  array |-> TRUE,  elems |-> <<>>]
      [] text = "[{A}]" -> [ok |-> TRUE,  array |-> TRUE,  elems |-> <<"A">>]
      [] text = "{}"    -> [ok |-> TRUE,  array |-> FALSE, elems |-> <<>>]
      [] OTHER          -> [ok |-> FALSE, array |-> FALSE, elems |-> <<>>]

\* The default applied to null only (value ?? '[]').
OrEmptyListNullish(value) == IF value = NullValue THEN "[]" ELSE value

\* value || '[]' : null and the empty string are falsy.
OrEmptyList(value) == IF value = NullValue \/ value = "" THEN "[]" ELSE value

\* JSON.parse(row.x || '[]')
ParseField(value) == JSONParse(OrEmptyList(value))

\* new Date(created_at).toISOString().split('T')[0]
DateStr(t) ==
    <<"2", "0", "2", "4", "-", "0", "1", "-", "0">> \o NumToStr(1 + (t \div 2))

\* date.toTimeString().split(' ')[0].slice(0, 5)
TimeStr(t) == IF t % 2 = 0 THEN "00:00" ELSE "12:00"

\* `${dateStr}-${row.id}`
Slug(row) == DateStr(row.created_at) \o <<"-">> \o NumToStr(row.id)

\* path.join(dir, `${slug}.mdx`), as the name inside dir.
SlugFile(row) == Slug(row) \o MdxExt

\* Insert row into a created_at-descending sequence, after its ties.
RECURSIVE InsertDesc(_, _)
InsertDesc(row, sorted) ==
    IF sorted = <<>> THEN <<row>>
    ELSE IF row.created_at > Head(sorted).created_at THEN <<row>> \o sorted
    ELSE <<Head(sorted)>> \o InsertDesc(row, Tail(sorted))

\* ORDER BY created_at DESC over the table in storage order (.all()).
RECURSIVE OrderByCreatedDesc(_)
OrderByCreatedDesc(table) ==
    IF table = <<>> THEN <<>>
    ELSE InsertDesc(table[Len(table)],
                    OrderByCreatedDesc(SubSeq(table, 1, Len(table) - 1)))

\* --------------------------------------------------------------- template
\* The constant of `sidebar_position: ${1000 - row.id}`.
WeightBase == 1000

\* A parsed value the template can take .length of and .map over.
Renderable(parsed) == parsed.array

\* The analysis template with the marker on every row but the first.
AnalysisMdxMarkerInverted(row, index) ==
    [kind             |-> "analysis",
     sidebar_position |-> WeightBase - row.id,
     latest           |-> (index # 0),
     dateStr          |-> DateStr(row.created_at),
     timeStr          |-> TimeStr(row.created_at),
     id               |-> row.id,
     source_file      |-> row.source_file,
     old_swot_id      |-> 0,
     new_swot_id      |-> 0,
     summary          |-> "",
     data             |-> [f \in FieldNames |-> ParseField(row.json[f])]]

\* The MDX text written for the analysis row at 0-based position index:
\* the values the template interpolates.
AnalysisMdx(row, index) ==
    [kind             |-> "analysis",
     sidebar_position |-> WeightBase - row.id,
     latest           |-> (index = 0),
     dateStr          |-> DateStr(row.created_at),
     timeStr          |-> TimeStr(row.created_at),
     id               |-> row.id,
     source_file      |-> row.source_file,
     old_swot_id      |-> 0,
     new_swot_id      |-> 0,
     summary          |-> "",
     data             |-> [f \in FieldNames |-> ParseField(row.json[f])]]

\* The MDX text written for the comparison row at 0-based position index.
ComparisonMdx(row, index) ==
    [kind             |-> "comparison",
     sidebar_position |-> WeightBase - row.id,
     latest           |-> (index = 0),
     dateStr          |-> DateStr(row.created_at),
     timeStr          |-> TimeStr(row.created_at),
     id               |-> row.id,
     source_file      |-> "",
     old_swot_id      |-> row.old_swot_id,
     new_swot_id      |-> row.new_swot_id,
     summary          |-> (IF row.summary = NullValue THEN "" ELSE row.summary),
     data             |-> [f \in {"items_json"} |-> ParseField(row.items_json)]]

\* Some JSON.parse of the analysis row throws (SyntaxError).
AnalysisParseThrows(row) == \E f \in FieldNames : ~ParseField(row.json[f]).ok

\* All parses succeed but the template throws (TypeError: x.map is not a
\* function) on a listed field that is not an array.
AnalysisRenderThrows(row) ==
    /\ ~AnalysisParseThrows(row)
    /\ \E f \in ListedFields : ~Renderable(ParseField(row.json[f]))

\* JSON.parse(row.items_json || '[]') throws; JSON.stringify(items) never does.
ComparisonParseThrows(row) == ~ParseField(row.items_json).ok

\* ------------------------------------------------------------ file system
\* A directory's files: a function from file name to content.
NoFiles == [n \in {} |-> 0]

\* fs.writeFileSync(path.join(dir, name), text)
WriteFile(files, name, text) == (name :> text) @@ files

\* fs.unlinkSync(path.join(dir, name))
Unlink(files, name) == [n \in (DOMAIN files) \ {name} |-> files[n]]

\* The filter without its test of the protected prefix.
CleanupCandidateAnyPrefix(f) == EndsWith(f, MdxExt)

\* The readdirSync(dir).filter(...) of cleanupOldFiles.
CleanupCandidate(f) == EndsWith(f, MdxExt) /\ ~StartsWith(f, <<"_">>)

\* The test with the captured text compared unparsed: a string is never an
\* element of the array of numbers.
IsStaleUnparsed(file, validIds) == IdMatch(file) # <<>>

\* The test that makes cleanupOldFiles unlink a candidate.
IsStale(file, validIds) ==
    /\ IdMatch(file) # <<>>
    /\ ParseInt(IdMatch(file)) \notin validIds

\* files.forEach of cleanupOldFiles over the candidates still to visit.
RECURSIVE CleanupLoop(_, _, _, _)
CleanupLoop(todo, files, validIds, removed) ==
    IF todo = {} THEN [files |-> files, removed |-> removed]
    ELSE LET file == CHOOSE f \in todo : TRUE
         IN IF IsStale(file, validIds)
            THEN CleanupLoop(todo \ {file}, Unlink(files, file), validIds,
                             removed + 1)
            ELSE CleanupLoop(todo \ {file}, files, validIds, removed)

\* The cleanup run over every directory entry, unfiltered.
CleanupOldFilesUnfiltered(files, validIds) ==
    CleanupLoop(DOMAIN files, files, validIds, 0)

\* cleanupOldFiles(dir, validIds): the directory afterwards and the count.
CleanupOldFiles(files, validIds) ==
    CleanupLoop({f \in DOMAIN files : CleanupCandidate(f)}, files, validIds, 0)

\* rows.map(r => r.id)
RowIds(rows) == {rows[i].id : i \in 1..Len(rows)}

\* ------------------------------------------------------------ command line
\* s.split(sep) for a one-character separator: the pieces, in order.
RECURSIVE Split(_, _)
Split(s, sep) ==
    IF \A i \in 1..Len(s) : s[i] # sep THEN <<s>>
    ELSE LET k == CHOOSE i \in 1..Len(s) :
                     s[i] = sep /\ \A j \in 1..(i - 1) : s[j] # sep
         IN <<SubSeq(s, 1, k - 1)>> \o Split(SubSeq(s, k + 1, Len(s)), sep)

\* undefined, for an array element or a find() that yields nothing.
Undefined == <<"<undefined>">>

\* x || y over strings: undefined and '' are falsy.
OrElse(x, y) == IF x = Undefined \/ x = <<>> THEN y ELSE x

DbFlag == <<"-", "-", "d", "b">>

DbFlagEq == <<"-", "-", "d", "b", "=">>

DefaultDb == <<".", ".", "/", "s", "w", "o", "t", ".", "d", "b">>

\* args.find(a => a.startsWith('--db='))?.split('=')[1]
DbEqArg(args) ==
    IF \A i \in 1..Len(args) : ~StartsWith(args[i], DbFlagEq) THEN Undefined
    ELSE LET k == CHOOSE i \in 1..Len(args) :
                     /\ StartsWith(args[i], DbFlagEq)
                     /\ \A j \in 1..(i - 1) : ~StartsWith(args[j], DbFlagEq)
         IN Split(args[k], "=")[2]

\* args[args.indexOf('--db') + 1]; indexOf is -1 when '--db' is absent,
\* which makes this args[0].
DbNextArg(args) ==
    LET at == IF \E i \in 1..Len(args) : args[i] = DbFlag
              THEN (CHOOSE i \in 1..Len(args) :
                        args[i] = DbFlag /\ \A j \in 1..(i - 1) : args[j] # DbFlag) - 1
              ELSE -1
        pos == at + 1
    IN IF pos + 1 \in 1..Len(args) THEN args[pos + 1] ELSE Undefined

\* dbPathArg
DbPathArg(args) == OrElse(DbEqArg(args), OrElse(DbNextArg(args), DefaultDb))

\* ------------------------------------------------------------------ state
VARIABLES
    argv,       \* process.argv.slice(2)
    dbFiles,    \* the paths at which a record store file exists
    store,      \* the store's tables, each in storage order
    docs,       \* docs/<kind>: [exists, files]
    pre,        \* docs as it was when the current run started
    pc,         \* the statement the script is at
    run,        \* the number of the current run
    dbOpen,     \* a connection is open (new Database ... db.close())
    opens,      \* connections opened by the current run
    exitCode,   \* the process exit code, -1 while running
    cause,      \* what ended the run
    swotRows,   \* result of the swot_analyses query
    compRows,   \* result of the comparisons query
    idx,        \* forEach index of the running loop
    removed,    \* removedSwot / removedComp, -1 before the call returns
    written,    \* names passed to writeFileSync by the current run
    faulted,    \* some run so far met a filesystem error
    config,     \* proxy: [user, password] (USER, PASSWORD)
    request,    \* proxy: the request being handled, or none
    outcome     \* proxy: what the handler did with it

genVars ==
    <<argv, dbFiles, store, docs, pre, pc, run, dbOpen, opens, exitCode,
      cause, swotRows, compRows, idx, removed, written, faulted>>

proxyVars == <<config, request, outcome>>

vars == <<genVars, proxyVars>>

\* -------------------------------------------------------- initial states
SourceFile == "plan.md"

\* The usual row: one item in each category list, no strategic pairings
\* stored (empty and NULL columns) but for one.
PlainJson ==
    [f \in FieldNames |->
        CASE f = "strategic_st_json" -> ""
          [] f = "strategic_wt_json" -> NullValue
          [] OTHER -> "[{A}]"]

\* Column profiles of one analysis row: at most one column differs from
\* the usual row.
FieldProfiles ==
    {PlainJson} \cup
    {[PlainJson EXCEPT ![f] = v] : f \in FieldNames, v \in JsonTexts}

AnalysisRows(profiles) ==
    [id : Ids, created_at : Timestamps, source_file : {SourceFile},
     json : profiles]

ComparisonRows(texts) ==
    [id : Ids, created_at : Timestamps, old_swot_id : {1}, new_swot_id : {2},
     items_json : texts, summary : {NullValue, "moved"}]

\* Tables of at most MaxRows rows with pairwise distinct ids.
Tables(rowSet) ==
    {t \in UNION {[1..n -> rowSet] : n \in 0..MaxRows} :
        \A i, j \in 1..Len(t) : i # j => t[i].id # t[j].id}

IsPlainAnalysis(r) == r.json = PlainJson

IsPlainComparison(r) == r.items_json = "[{A}]" /\ r.summary = NullValue

\* Stores of at most MaxRows rows in all, every row the usual one.
PlainStores ==
    {st \in [swot : Tables(AnalysisRows({PlainJson})),
             comparisons : Tables(ComparisonRows({"[{A}]"}))] :
        /\ Len(st.swot) + Len(st.comparisons) <= MaxRows
        /\ \A i \in 1..Len(st.comparisons) : IsPlainComparison(st.comparisons[i])}

\* Stores of at most MaxRows rows in all, in which one row is not plain:
\* an analysis with an odd column, or a comparison with other items or a
\* summary.
FieldStores ==
    {[st EXCEPT !.swot[i].json = prof] :
        st \in PlainStores, i \in 1..MaxRows, prof \in FieldProfiles}
    \cup
    {[st EXCEPT !.comparisons[i].items_json = text,
               !.comparisons[i].summary = sum] :
        st \in PlainStores, i \in 1..MaxRows, text \in JsonTexts,
        sum \in {NullValue, "moved"}}

\* A hand-written file.
HandDoc ==
    [kind |-> "hand", sidebar_position |-> 0, latest |-> FALSE,
     dateStr |-> <<>>, timeStr |-> "", id |-> 0, source_file |-> "",
     old_swot_id |-> 0, new_swot_id |-> 0, summary |-> "",
     data |-> [f \in {} |-> 0]]

\* A file some earlier run emitted, then flagged latest.
PrevDoc == [HandDoc EXCEPT !.kind = "previous", !.latest = TRUE]

\* Names shaped like the slugs the script writes.
SlugLikeNames ==
    {DateStr(t) \o <<"-">> \o NumToStr(t) \o MdxExt : t \in Timestamps}

\* Other names found beside them: protected with digits, digits without
\* a dash, another extension, hand-named with an id, and an
\* id written with a leading zero.
HandNames ==
    {<<"_", "-", "2">> \o MdxExt,
     <<"a", "2">> \o MdxExt,
     <<"a", "-", "2", ".", "m", "d">>,
     <<"a", "-", "2">> \o MdxExt,
     <<"a", "-", "0", "1">> \o MdxExt}

PreContent(name) == IF name \in SlugLikeNames THEN PrevDoc ELSE HandDoc

\* The files that may be there before the first run, as <<kind, name>>.
PreFiles ==
    ({"swot"} \X (SlugLikeNames \cup HandNames)) \cup
    ({"comparisons"} \X {<<"_", "-", "2">> \o MdxExt,
                        <<"a", "-", "2">> \o MdxExt,
                        DateStr(1) \o <<"-", "1">> \o MdxExt})

\* The tree holding the files of chosen; a directory in absent is missing.
Tree(chosen, absent) ==
    [k \in Kinds |->
        [exists |-> k \notin absent,
         files  |-> [n \in {m \in SlugLikeNames \cup HandNames :
                               <<k, m>> \in chosen} |-> PreContent(n)]]]

\* Trees of at most MaxPre files, both directories present.
Trees ==
    {Tree(c, {}) : c \in {x \in SUBSET PreFiles : Cardinality(x) <= MaxPre}}

\* Nothing there yet, or one earlier slug file.
FewTrees ==
    {Tree({}, Kinds),
     Tree({<<"swot", DateStr(2) \o <<"-", "2">> \o MdxExt>>}, {"comparisons"})}

DbPath == <<"/", "d">>

\* --db /d
PlainArgs == <<DbFlag, DbPath>>

\* The command lines: none, --db=/d, --db /d, /d, --db=/d=x, --db.
ArgLists ==
    {<<>>, <<DbFlagEq \o DbPath>>, PlainArgs, <<DbPath>>,
     <<DbFlagEq \o DbPath \o <<"=", "x">>>>, <<DbFlag>>}

InitRun ==
    /\ pre = docs
    /\ pc = "preflight"
    /\ run = 1
    /\ dbOpen = FALSE
    /\ opens = 0
    /\ exitCode = -1
    /\ cause = "none"
    /\ swotRows = <<>>
    /\ compRows = <<>>
    /\ idx = 0
    /\ removed = [k \in Kinds |-> -1]
    /\ written = [k \in Kinds |-> {}]
    /\ faulted = FALSE

\* Plain stores over every tree; stores with an odd column, and every
\* command line, over a few trees.
InitGen ==
    /\ \/ /\ argv = PlainArgs
          /\ dbFiles = {DbPath}
          /\ store \in PlainStores
          /\ docs \in Trees
       \/ /\ argv = PlainArgs
          /\ dbFiles = {DbPath}
          /\ store \in FieldStores
          /\ docs \in FewTrees
       \/ /\ argv \in ArgLists
          /\ dbFiles \in {{}, {DbPath}, {DefaultDb}}
          /\ store \in {st \in PlainStores : Len(st.swot) = 1 /\ Len(st.comparisons) = 1}
          /\ docs \in FewTrees
    /\ InitRun

NoRequest == [kind |-> "none", authorization |-> Undefined]

Init ==
    /\ InitGen
    /\ config = [user |-> Undefined, password |-> Undefined]
    /\ request = NoRequest
    /\ outcome = "idle"

\* ------------------------------------------------------ generate-docs.js
\* An uncaught exception: the process ends with code 1; nothing is closed.
Abort(why) ==
    /\ pc' = "exited"
    /\ exitCode' = 1
    /\ cause' = why

\* The pre-flight check placed after the directories are made.
PreflightMissingAfterMkdir ==
    /\ pc = "preflight"
    /\ DbPathArg(argv) \notin dbFiles
    /\ docs' = [k \in Kinds |-> [docs[k] EXCEPT !.exists = TRUE]]
    /\ pc' = "exited"
    /\ exitCode' = 1
    /\ cause' = "StoreNotFound"
    /\ UNCHANGED <<proxyVars, argv, dbFiles, store, pre, run, dbOpen, opens,
                   swotRows, compRows, idx, removed, written, faulted>>

\* if (!fs.existsSync(dbPath)) { ...; process.exit(1); }
PreflightMissing ==
    /\ pc = "preflight"
    /\ DbPathArg(argv) \notin dbFiles
    /\ pc' = "exited"
    /\ exitCode' = 1
    /\ cause' = "StoreNotFound"
    /\ UNCHANGED <<proxyVars, argv, dbFiles, store, docs, pre, run, dbOpen, opens,
                   swotRows, compRows, idx, removed, written, faulted>>

PreflightFound ==
    /\ pc = "preflight"
    /\ DbPathArg(argv) \in dbFiles
    /\ pc' = "connect"
    /\ UNCHANGED <<proxyVars, argv, dbFiles, store, docs, pre, run, dbOpen, opens,
                   exitCode, cause, swotRows, compRows, idx, removed, written,
                   faulted>>

\* const db = new Database(dbPath, { readonly: true });
Connect ==
    /\ pc = "connect"
    /\ dbOpen' = TRUE
    /\ opens' = opens + 1
    /\ pc' = "mkdir"
    /\ UNCHANGED <<proxyVars, argv, dbFiles, store, docs, pre, run, exitCode, cause,
                   swotRows, compRows, idx, removed, written, faulted>>

\* fs.mkdirSync(swotDir, { recursive: true }); the same for compDir.
MakeDirs ==
    /\ pc = "mkdir"
    /\ docs' = [k \in Kinds |-> [docs[k] EXCEPT !.exists = TRUE]]
    /\ pc' = "listSwot"
    /\ UNCHANGED <<proxyVars, argv, dbFiles, store, pre, run, dbOpen, opens, exitCode,
                   cause, swotRows, compRows, idx, removed, written, faulted>>

\* const swotRows = db.prepare(`... ORDER BY sa.created_at DESC`).all();
ListAnalyses ==
    /\ pc = "listSwot"
    /\ swotRows' = OrderByCreatedDesc(store.swot)
    /\ idx' = 0
    /\ pc' = "emitSwot"
    /\ UNCHANGED <<proxyVars, argv, dbFiles, store, docs, pre, run, dbOpen, opens,
                   exitCode, cause, compRows, removed, written, faulted>>

\* One iteration of swotRows.forEach that reaches its end.
EmitAnalysis ==
    /\ pc = "emitSwot"
    /\ idx < Len(swotRows)
    /\ LET row == swotRows[idx + 1]
       IN /\ ~AnalysisParseThrows(row)
          /\ ~AnalysisRenderThrows(row)
          /\ docs' = [docs EXCEPT !["swot"].files =
                         WriteFile(@, SlugFile(row), AnalysisMdx(row, idx))]
          /\ written' = [written EXCEPT !["swot"] = @ \cup {SlugFile(row)}]
    /\ idx' = idx + 1
    /\ UNCHANGED <<proxyVars, argv, dbFiles, store, pre, pc, run, dbOpen, opens,
                   exitCode, cause, swotRows, compRows, removed, faulted>>

\* An iteration in which JSON.parse throws.
EmitAnalysisParseError ==
    /\ pc = "emitSwot"
    /\ idx < Len(swotRows)
    /\ AnalysisParseThrows(swotRows[idx + 1])
    /\ Abort("SyntaxError")
    /\ UNCHANGED <<proxyVars, argv, dbFiles, store, docs, pre, run, dbOpen, opens,
                   swotRows, compRows, idx, removed, written, faulted>>

\* An iteration in which the template throws on a value that is no array.
EmitAnalysisRenderError ==
    /\ pc = "emitSwot"
    /\ idx < Len(swotRows)
    /\ AnalysisRenderThrows(swotRows[idx + 1])
    /\ Abort("TypeError")
    /\ UNCHANGED <<proxyVars, argv, dbFiles, store, docs, pre, run, dbOpen, opens,
                   swotRows, compRows, idx, removed, written, faulted>>

\* An iteration in which fs.writeFileSync throws before writing.
EmitAnalysisWriteError ==
    /\ pc = "emitSwot"
    /\ idx < Len(swotRows)
    /\ ~AnalysisParseThrows(swotRows[idx + 1])
    /\ ~AnalysisRenderThrows(swotRows[idx + 1])
    /\ Abort("FilesystemError")
    /\ faulted' = TRUE
    /\ UNCHANGED <<proxyVars, argv, dbFiles, store, docs, pre, run, dbOpen, opens,
                   swotRows, compRows, idx, removed, written>>

\* const removedSwot = cleanupOldFiles(swotDir, swotRows.map(r => r.id));
CleanupAnalyses ==
    /\ pc = "emitSwot"
    /\ idx = Len(swotRows)
    /\ LET res == CleanupOldFiles(docs["swot"].files, RowIds(swotRows))
       IN /\ docs' = [docs EXCEPT !["swot"].files = res.files]
          /\ removed' = [removed EXCEPT !["swot"] = res.removed]
    /\ pc' = "listComp"
    /\ UNCHANGED <<proxyVars, argv, dbFiles, store, pre, run, dbOpen, opens, exitCode,
                   cause, swotRows, compRows, idx, written, faulted>>

\* The files the cleanup of dir would unlink.
StaleFiles(files, validIds) ==
    {f \in DOMAIN files : CleanupCandidate(f) /\ IsStale(f, validIds)}

\* fs.unlinkSync throws on victim after the files of done were unlinked
\* (readdirSync fixes no order).
CleanupFails(kind, rows) ==
    \E victim \in StaleFiles(docs[kind].files, RowIds(rows)) :
        \E done \in SUBSET (StaleFiles(docs[kind].files, RowIds(rows)) \ {victim}) :
            /\ docs' = [docs EXCEPT ![kind].files =
                           [n \in (DOMAIN @) \ done |-> @[n]]]
            /\ Abort("FilesystemError")
            /\ faulted' = TRUE

CleanupAnalysesUnlinkError ==
    /\ pc = "emitSwot"
    /\ idx = Len(swotRows)
    /\ CleanupFails("swot", swotRows)
    /\ UNCHANGED <<proxyVars, argv, dbFiles, store, pre, run, dbOpen, opens, swotRows,
                   compRows, idx, removed, written>>

\* const compRows = db.prepare(`... ORDER BY created_at DESC`).all();
ListComparisons ==
    /\ pc = "listComp"
    /\ compRows' = OrderByCreatedDesc(store.comparisons)
    /\ idx' = 0
    /\ pc' = "emitComp"
    /\ UNCHANGED <<proxyVars, argv, dbFiles, store, docs, pre, run, dbOpen, opens,
                   exitCode, cause, swotRows, removed, written, faulted>>

\* One iteration of compRows.forEach that reaches its end.
EmitComparison ==
    /\ pc = "emitComp"
    /\ idx < Len(compRows)
    /\ LET row == compRows[idx + 1]
       IN /\ ~ComparisonParseThrows(row)
          /\ docs' = [docs EXCEPT !["comparisons"].files =
                         WriteFile(@, SlugFile(row), ComparisonMdx(row, idx))]
          /\ written' = [written EXCEPT !["comparisons"] = @ \cup {SlugFile(row)}]
    /\ idx' = idx + 1
    /\ UNCHANGED <<proxyVars, argv, dbFiles, store, pre, pc, run, dbOpen, opens,
                   exitCode, cause, swotRows, compRows, removed, faulted>>

EmitComparisonParseError ==
    /\ pc = "emitComp"
    /\ idx < Len(compRows)
    /\ ComparisonParseThrows(compRows[idx + 1])
    /\ Abort("SyntaxError")
    /\ UNCHANGED <<proxyVars, argv, dbFiles, store, docs, pre, run, dbOpen, opens,
                   swotRows, compRows, idx, removed, written, faulted>>

EmitComparisonWriteError ==
    /\ pc = "emitComp"
    /\ idx < Len(compRows)
    /\ ~ComparisonParseThrows(compRows[idx + 1])
    /\ Abort("FilesystemError")
    /\ faulted' = TRUE
    /\ UNCHANGED <<proxyVars, argv, dbFiles, store, docs, pre, run, dbOpen, opens,
                   swotRows, compRows, idx, removed, written>>

\* const removedComp = cleanupOldFiles(compDir, compRows.map(r => r.id));
CleanupComparisons ==
    /\ pc = "emitComp"
    /\ idx = Len(compRows)
    /\ LET res == CleanupOldFiles(docs["comparisons"].files, RowIds(compRows))
       IN /\ docs' = [docs EXCEPT !["comparisons"].files = res.files]
          /\ removed' = [removed EXCEPT !["comparisons"] = res.removed]
    /\ pc' = "close"
    /\ UNCHANGED <<proxyVars, argv, dbFiles, store, pre, run, dbOpen, opens, exitCode,
                   cause, swotRows, compRows, idx, written, faulted>>

CleanupComparisonsUnlinkError ==
    /\ pc = "emitComp"
    /\ idx = Len(compRows)
    /\ CleanupFails("comparisons", compRows)
    /\ UNCHANGED <<proxyVars, argv, dbFiles, store, pre, run, dbOpen, opens, swotRows,
                   compRows, idx, removed, written>>

\* db.close(); the script then runs off its end: exit code 0.
Close ==
    /\ pc = "close"
    /\ dbOpen' = FALSE
    /\ pc' = "exited"
    /\ exitCode' = 0
    /\ cause' = "done"
    /\ UNCHANGED <<proxyVars, argv, dbFiles, store, docs, pre, run, opens, swotRows,
                   compRows, idx, removed, written, faulted>>

\* The script is started again on the same store and tree; the exited
\* process holds no connection any more. (A run that follows a filesystem
\* error is a first run on the tree the error left.)
Rerun ==
    /\ pc = "exited"
    /\ ~faulted
    /\ run < MaxRuns
    /\ run' = run + 1
    /\ pre' = docs
    /\ pc' = "preflight"
    /\ dbOpen' = FALSE
    /\ opens' = 0
    /\ exitCode' = -1
    /\ cause' = "none"
    /\ swotRows' = <<>>
    /\ compRows' = <<>>
    /\ idx' = 0
    /\ removed' = [k \in Kinds |-> -1]
    /\ written' = [k \in Kinds |-> {}]
    /\ UNCHANGED <<proxyVars, argv, dbFiles, store, docs, faulted>>

Next ==
    \/ PreflightMissing
    \/ PreflightFound
    \/ Connect
    \/ MakeDirs
    \/ ListAnalyses
    \/ EmitAnalysis
    \/ EmitAnalysisParseError
    \/ EmitAnalysisRenderError
    \/ EmitAnalysisWriteError
    \/ CleanupAnalyses
    \/ CleanupAnalysesUnlinkError
    \/ ListComparisons
    \/ EmitComparison
    \/ EmitComparisonParseError
    \/ EmitComparisonWriteError
    \/ CleanupComparisons
    \/ CleanupComparisonsUnlinkError
    \/ Close
    \/ Rerun

Spec == Init /\ [][Next]_vars

\* --------------------------------------------------- docusaurus.config.js
\* The proxy: http.createServer's request handler and server.on('upgrade').

B64Alphabet ==
    <<"A", "B", "C", "D", "E", "F", "G", "H", "I", "J", "K", "L", "M", "N", "O", "P",
      "Q", "R", "S", "T", "U", "V", "W", "X", "Y", "Z", "a", "b", "c", "d", "e", "f",
      "g", "h", "i", "j", "k", "l", "m", "n", "o", "p", "q", "r", "s", "t", "u", "v",
      "w", "x", "y", "z", "0", "1", "2", "3", "4", "5", "6", "7", "8", "9", "+", "/">>

\* The characters of the payload up to the first "=", those outside the
\* alphabet skipped, as 6-bit values.
RECURSIVE Sextets(_)
Sextets(s) ==
    IF s = <<>> \/ Head(s) = "=" THEN <<>>
    ELSE IF \E i \in 1..64 : B64Alphabet[i] = Head(s)
         THEN <<(CHOOSE i \in 1..64 : B64Alphabet[i] = Head(s)) - 1>>
                  \o Sextets(Tail(s))
         ELSE Sextets(Tail(s))

\* Four 6-bit values make three bytes; three make two; two make one.
RECURSIVE SextetsToBytes(_)
SextetsToBytes(x) ==
    IF Len(x) < 2 THEN <<>>
    ELSE LET b1 == (x[1] * 4) + (x[2] \div 16)
         IN IF Len(x) = 2 THEN <<b1>>
            ELSE LET b2 == ((x[2] % 16) * 16) + (x[3] \div 4)
                 IN IF Len(x) = 3 THEN <<b1, b2>>
                    ELSE <<b1, b2, ((x[3] % 4) * 64) + x[4]>>
                             \o SextetsToBytes(SubSeq(x, 5, Len(x)))

\* The character of a byte (the ASCII characters in use; "?" otherwise).
ByteChar(b) ==
    CASE b = 48 -> "0"
      [] b = 50 -> "2"
      [] b = 52 -> "4"
      [] b = 58 -> ":"
      [] b = 97 -> "a"
      [] b = 98 -> "b"
      [] b = 100 -> "d"
      [] b = 105 -> "i"
      [] b = 109 -> "m"
      [] b = 110 -> "n"
      [] b = 111 -> "o"
      [] b = 112 -> "p"
      [] b = 113 -> "q"
      [] b = 115 -> "s"
      [] b = 116 -> "t"
      [] b = 119 -> "w"
      [] b = 120 -> "x"
      [] OTHER -> "?"

\* Buffer.from(payload, 'base64').toString()
Base64Decode(payload) ==
    LET bytes == SextetsToBytes(Sextets(payload))
    IN [i \in 1..Len(bytes) |-> ByteChar(bytes[i])]

BasicPrefix == <<"B", "a", "s", "i", "c", " ">>

DefaultUser == <<"a", "d", "m", "i", "n">>

DefaultPassword == <<"s", "w", "o", "t", "2", "0", "2", "4">>

\* const USER = process.env.SWOT_USER || 'admin';
USER == OrElse(config.user, DefaultUser)

\* const PASSWORD = process.env.SWOT_PASSWORD || 'swot2024';
PASSWORD == OrElse(config.password, DefaultPassword)

\* !auth || !auth.startsWith('Basic ')
NoBasicAuth(auth) == auth = Undefined \/ auth = <<>> \/ ~StartsWith(auth, BasicPrefix)

\* Buffer.from(auth.slice(6), 'base64').toString()
Credentials(auth) == Base64Decode(SubSeq(auth, Len(BasicPrefix) + 1, Len(auth)))

\* const [user, pass] = credentials.split(':');
UserOf(credentials) == Split(credentials, ":")[1]

PassOf(credentials) ==
    LET parts == Split(credentials, ":")
    IN IF Len(parts) >= 2 THEN parts[2] ELSE Undefined

\* user === USER && pass === PASSWORD
CredentialsAccepted(auth) ==
    /\ UserOf(Credentials(auth)) = USER
    /\ PassOf(Credentials(auth)) = PASSWORD

\* Authorization header values a client may send, with the text each
\* Basic payload encodes.
AuthHeaders ==
    {
     \* Basic YTpw  (a:p)
     <<"B", "a", "s", "i", "c", " ", "Y", "T", "p", "w">>,
     \* Basic YTpwOng=  (a:p:x)
     <<"B", "a", "s", "i", "c", " ", "Y", "T", "p", "w", "O", "n", "g", "=">>,
     \* Basic YTpwOnE=  (a:p:q)
     <<"B", "a", "s", "i", "c", " ", "Y", "T", "p", "w", "O", "n", "E", "=">>,
     \* Basic YQ==  (a)
     <<"B", "a", "s", "i", "c", " ", "Y", "Q", "=", "=">>,
     \* Basic YTo=  (a:)
     <<"B", "a", "s", "i", "c", " ", "Y", "T", "o", "=">>,
     \* Basic OnA=  (:p)
     <<"B", "a", "s", "i", "c", " ", "O", "n", "A", "=">>,
     \* Basic YTpx  (a:q)
     <<"B", "a", "s", "i", "c", " ", "Y", "T", "p", "x">>,
     \* Basic Yjpw  (b:p)
     <<"B", "a", "s", "i", "c", " ", "Y", "j", "p", "w">>,
     \* Basic YWRtaW46c3dvdDIwMjQ=  (admin:swot2024)
     <<"B", "a", "s", "i", "c", " ", "Y", "W", "R", "t", "a", "W", "4", "6", "c", "3", "d", "v", "d", "D", "I", "w", "M", "j", "Q", "=">>,
     \* Basic YWRtaW46c3dvdDIwMjQ6eA==  (admin:swot2024:x)
     <<"B", "a", "s", "i", "c", " ", "Y", "W", "R", "t", "a", "W", "4", "6", "c", "3", "d", "v", "d", "D", "I", "w", "M", "j", "Q", "6", "e", "A", "=", "=">>,
     \* Basic YWRtaW46cA==  (admin:p)
     <<"B", "a", "s", "i", "c", " ", "Y", "W", "R", "t", "a", "W", "4", "6", "c", "A", "=", "=">>,
     \* Bearer YTpw  (another scheme)
     <<"B", "e", "a", "r", "e", "r", " ", "Y", "T", "p", "w">>,
     \* basic YTpw  (the scheme in lower case)
     <<"b", "a", "s", "i", "c", " ", "Y", "T", "p", "w">>,
     \* BasicYTpw  (no space after the scheme)
     <<"B", "a", "s", "i", "c", "Y", "T", "p", "w">>
    }

Requests ==
    [kind : {"http", "upgrade"}, authorization : AuthHeaders \cup {Undefined}]

\* A request or an upgrade arrives; the server handles one at a time.
Receive ==
    /\ outcome # "pending"
    /\ request' \in Requests
    /\ outcome' = "pending"
    /\ UNCHANGED <<genVars, config>>

\* if (!auth || !auth.startsWith('Basic ')) { res.writeHead(401, ...) }
HttpNoAuth ==
    /\ outcome = "pending"
    /\ request.kind = "http"
    /\ NoBasicAuth(request.authorization)
    /\ outcome' = "challenge"
    /\ UNCHANGED <<genVars, config, request>>

\* if (user !== USER || pass !== PASSWORD) { res.writeHead(401, ...) }
HttpWrongCredentials ==
    /\ outcome = "pending"
    /\ request.kind = "http"
    /\ ~NoBasicAuth(request.authorization)
    /\ ~CredentialsAccepted(request.authorization)
    /\ outcome' = "challenge"
    /\ UNCHANGED <<genVars, config, request>>

\* proxy.web(req, res, ...)
HttpForward ==
    /\ outcome = "pending"
    /\ request.kind = "http"
    /\ ~NoBasicAuth(request.authorization)
    /\ CredentialsAccepted(request.authorization)
    /\ outcome' = "forwarded"
    /\ UNCHANGED <<genVars, config, request>>

\* proxy.ws(req, socket, head)
UpgradeForward ==
    /\ outcome = "pending"
    /\ request.kind = "upgrade"
    /\ ~NoBasicAuth(request.authorization)
    /\ CredentialsAccepted(request.authorization)
    /\ outcome' = "forwarded"
    /\ UNCHANGED <<genVars, config, request>>

\* socket.destroy(): the connection is dropped, no response is written.
UpgradeDestroy ==
    /\ outcome = "pending"
    /\ request.kind = "upgrade"
    /\ \/ NoBasicAuth(request.authorization)
       \/ ~CredentialsAccepted(request.authorization)
    /\ outcome' = "destroyed"
    /\ UNCHANGED <<genVars, config, request>>

\* The environment the proxy is started in: SWOT_USER, SWOT_PASSWORD.
Environments ==
    [user : {Undefined, <<"a">>},
     password : {Undefined, <<"p">>, <<"p", ":", "q">>}]

ProxyInit ==
    /\ argv = PlainArgs
    /\ dbFiles = {DbPath}
    /\ store = [swot |-> <<>>, comparisons |-> <<>>]
    /\ docs = Tree({}, {})
    /\ InitRun
    /\ config \in Environments
    /\ request = NoRequest
    /\ outcome = "idle"

ProxyNext ==
    \/ Receive
    \/ HttpNoAuth
    \/ HttpWrongCredentials
    \/ HttpForward
    \/ UpgradeForward
    \/ UpgradeDestroy

ProxySpec == ProxyInit /\ [][ProxyNext]_vars

\* The decoded text of the header is exactly USER:PASSWORD, Basic scheme.
ExactCredentials(auth) ==
    /\ auth # Undefined
    /\ StartsWith(auth, BasicPrefix)
    /\ Credentials(auth) = USER \o <<":">> \o PASSWORD

\* C7: a handled request was forwarded only if its header carries exactly
\* the configured pair, and got the challenge response otherwise.
C7_OnlyExactCredentials ==
    (request # NoRequest /\ outcome # "pending") =>
        IF ExactCredentials(request.authorization)
        THEN outcome \in {"forwarded", "challenge"}
        ELSE outcome = "challenge"

\* ----------------------------------------------------------- properties
\* The listing of a kind, once queried.
Rows(k) == IF k = "swot" THEN swotRows ELSE compRows

\* The kind whose pass the run is in (or ended in).
CurrentKind == IF removed["swot"] = -1 THEN "swot" ELSE "comparisons"

\* The name starts with the protected prefix.
Protected(f) == Len(f) >= 1 /\ f[1] = "_"

\* The positions of a "-" that is followed by digits only, up to ".mdx".
IdDashes(f) ==
    {i \in 1..Len(f) :
        /\ f[i] = "-"
        /\ Len(f) >= i + 5
        /\ \A j \in (i + 1)..(Len(f) - 4) : IsDigit(f[j])
        /\ <<f[Len(f) - 3], f[Len(f) - 2], f[Len(f) - 1], f[Len(f)]>> = MdxExt}

\* The name ends in -<digits>.mdx.
HasIdSuffix(f) == IdDashes(f) # {}

\* The number the digits of such a name write.
EmbeddedId(f) ==
    LET i == CHOOSE d \in IdDashes(f) : TRUE
    IN ParseInt(SubSeq(f, i + 1, Len(f) - 4))

\* A file the cleanup has to leave alone.
Untouchable(f) == Protected(f) \/ ~HasIdSuffix(f)

\* The column values of a row of kind k, by column.
FieldValues(k, row) ==
    IF k = "swot" THEN row.json ELSE [f \in {"items_json"} |-> row.items_json]

Missing(v) == v = NullValue \/ v = ""

Malformed(v) == ~Missing(v) /\ ~JSONParse(v).ok

HasMalformed(k, row) ==
    \E f \in DOMAIN FieldValues(k, row) : Malformed(FieldValues(k, row)[f])

EmptyList == [ok |-> TRUE, array |-> TRUE, elems |-> <<>>]

Succeeded == pc = "exited" /\ exitCode = 0

\* C1: after a successful run each output directory holds exactly the
\* slug files of the listed records and the protected or non-matching
\* files that were there before the run.
C1_ReconciledExactly ==
    Succeeded =>
        \A k \in Kinds :
            DOMAIN docs[k].files =
                {SlugFile(Rows(k)[i]) : i \in 1..Len(Rows(k))} \cup
                {f \in DOMAIN pre[k].files : Untouchable(f)}

\* C2: at every point of a run, each file that was in an output directory
\* when the run started and is protected or does not end in -<digits>.mdx
\* is still there with its content.
C2_UntouchableKept ==
    \A k \in Kinds :
        \A f \in DOMAIN pre[k].files :
            Untouchable(f) =>
                /\ f \in DOMAIN docs[k].files
                /\ docs[k].files[f] = pre[k].files[f]

\* C2 witness: a successful run whose cleanup removed a file while a
\* protected file with a stale identifier in its name stayed.
C2_Witness ==
    /\ Succeeded
    /\ removed["swot"] >= 1
    /\ (<<"_", "-", "2">> \o MdxExt) \in DOMAIN docs["swot"].files
    /\ 2 \notin RowIds(swotRows)

\* C3: once cleanupOldFiles has returned for a kind, the files gone from
\* the directory it was given are exactly the non-protected -<digits>.mdx
\* files whose identifier is not valid, and the count returned is their
\* number.
C3_CleanupContract ==
    \A k \in Kinds :
        removed[k] >= 0 =>
            LET before == (DOMAIN pre[k].files) \cup written[k]
                gone   == before \ (DOMAIN docs[k].files)
            IN /\ (DOMAIN docs[k].files) \subseteq before
               /\ gone = {f \in before :
                             /\ ~Protected(f)
                             /\ HasIdSuffix(f)
                             /\ EmbeddedId(f) \notin RowIds(Rows(k))}
               /\ removed[k] = Cardinality(gone)

\* C3 witness: a cleanup that removed two files after a file was emitted.
C3_Witness ==
    /\ removed["swot"] = 2
    /\ written["swot"] # {}

\* C4: a further run on the unchanged store, with no filesystem error in
\* any run, ends with the tree as the previous run left it and removes no
\* file.
C4_Idempotent ==
    (run >= 2 /\ pc = "exited" /\ ~faulted) =>
        /\ docs = pre
        /\ \A k \in Kinds : removed[k] <= 0

\* C4 witness: a successful second run that emitted an analysis.
C4_Witness ==
    /\ run = 2
    /\ Succeeded
    /\ ~faulted
    /\ written["swot"] # {}
    /\ removed["swot"] = 0

\* C5: a NULL or empty column is emitted as the empty list and is not what
\* a run fails on; a record with an unparseable column is never emitted and
\* a store holding one never reaches exit code 0.
C5_MissingAndMalformed ==
    /\ \A k \in Kinds :
           \A i \in 1..Len(Rows(k)) :
               LET row == Rows(k)[i]
               IN SlugFile(row) \in written[k] =>
                      /\ ~HasMalformed(k, row)
                      /\ \A f \in DOMAIN FieldValues(k, row) :
                             Missing(FieldValues(k, row)[f]) =>
                                 docs[k].files[SlugFile(row)].data[f] = EmptyList
    /\ cause = "SyntaxError" => HasMalformed(CurrentKind, Rows(CurrentKind)[idx + 1])
    /\ cause = "TypeError" =>
           \E f \in FieldNames : ~Missing(swotRows[idx + 1].json[f])
    /\ Succeeded =>
           \A k \in Kinds :
               \A i \in 1..Len(store[k]) : ~HasMalformed(k, store[k][i])

\* C5 witness: the run aborted on an unparseable column of the second
\* record after emitting the first with its NULL column as the empty list.
C5_Witness ==
    /\ pc = "exited"
    /\ cause = "SyntaxError"
    /\ idx = 1
    /\ \E n \in written["swot"] :
           docs["swot"].files[n].data["strategic_wt_json"] = EmptyList

\* C6: a run that aborted on an unparseable column leaves the directory of
\* that kind as it was when the run started.
C6_NoPartialOutput ==
    (pc = "exited" /\ cause = "SyntaxError") =>
        docs[CurrentKind].files = pre[CurrentKind].files

\* C8: a run that opened the connection has, when it ends, opened it once
\* and closed it.
C8_ConnectionReleased ==
    (pc = "exited" /\ opens > 0) => (opens = 1 /\ ~dbOpen)

\* C9: with no store at the resolved location the run connects to nothing,
\* leaves the tree as it was and ends with exit code 1; with a store there
\* and no record that throws and no filesystem error it ends with code 0.
C9_StoreNotFound ==
    /\ DbPathArg(argv) \notin dbFiles =>
           /\ opens = 0
           /\ ~dbOpen
           /\ docs = pre
           /\ pc = "exited" => exitCode = 1
    /\ (/\ DbPathArg(argv) \in dbFiles
        /\ pc = "exited"
        /\ cause # "FilesystemError"
        /\ \A i \in 1..Len(store.swot) :
               /\ ~AnalysisParseThrows(store.swot[i])
               /\ ~AnalysisRenderThrows(store.swot[i])
        /\ \A i \in 1..Len(store.comparisons) :
               ~ComparisonParseThrows(store.comparisons[i]))
       => exitCode = 0

\* C9 witness: a run that ended on the missing store, the output
\* directories still absent.
C9_Witness ==
    /\ pc = "exited"
    /\ exitCode = 1
    /\ cause = "StoreNotFound"
    /\ ~docs["swot"].exists
    /\ ~docs["comparisons"].exists

\* C10: of the documents a pass has emitted, the one of the first listed
\* record is marked latest and no other is; after a successful run over a
\* non-empty listing exactly one emitted document of the kind is marked.
C10_LatestIsRankZero ==
    \A k \in Kinds :
        /\ \A i \in 1..Len(Rows(k)) :
               SlugFile(Rows(k)[i]) \in written[k] =>
                   (docs[k].files[SlugFile(Rows(k)[i])].latest <=> (i = 1))
        /\ (Succeeded /\ Len(Rows(k)) > 0) =>
               Cardinality({n \in written[k] : docs[k].files[n].latest}) = 1

\* C10 witness: a successful run that listed two analyses.
C10_Witness ==
    /\ Succeeded
    /\ Len(swotRows) = 2
    /\ Cardinality(written["swot"]) = 2

\* The identifiers of a table were assigned in creation order: a larger
\* identifier never goes with an earlier created_at.
IdsFollowCreation(table) ==
    \A i, j \in 1..Len(table) :
        table[i].id < table[j].id => table[i].created_at <= table[j].created_at

\* The initial states in which every table is in rowid order and its
\* identifiers were assigned in creation order.
InitAssigned ==
    /\ Init
    /\ \A k \in Kinds :
           /\ IdsFollowCreation(store[k])
           /\ \A i, j \in 1..Len(store[k]) :
                  i < j => store[k][i].id < store[k][j].id

SpecAssigned == InitAssigned /\ [][Next]_vars

\* The ordering weight of the document emitted for a listed record.
WeightOf(k, i) == docs[k].files[SlugFile(Rows(k)[i])].sidebar_position

\* The listed records of kind k whose document this run has emitted.
Emitted(k) == {i \in 1..Len(Rows(k)) : SlugFile(Rows(k)[i]) \in written[k]}

\* C11: the emitted documents of a kind, sorted ascending by weight, stand
\* in listing order; of two records the later created has the strictly
\* smaller weight; the document marked latest has the smallest weight.
C11_WeightFollowsListing ==
    \A k \in Kinds :
        \A i, j \in Emitted(k) :
            /\ i < j => WeightOf(k, i) < WeightOf(k, j)
            /\ Rows(k)[i].created_at > Rows(k)[j].created_at =>
                   WeightOf(k, i) < WeightOf(k, j)
            /\ docs[k].files[SlugFile(Rows(k)[i])].latest =>
                   WeightOf(k, i) <= WeightOf(k, j)

====
